---------------------------- MODULE Spec2Model ----------------------------
(***************************************************************************)
(* Model of build-actions' step runner (src/action.py): the command        *)
(* executor run(), the persisted build configuration                       *)
(* (build-action-config.json) and the prepare / configure / build / test   *)
(* steps that main() dispatches to.                                        *)
(*                                                                         *)
(* Conventions                                                             *)
(*  - A text (captured stdout / stderr, a retry pattern) is a sequence of  *)
(*    words; Python's `pattern in text` is the contiguous-subsequence test *)
(*    Contains.                                                            *)
(*  - A Python optional is a sequence of length 0 (None) or 1 (the value). *)
(*  - The outcome of every external process is chosen by the environment.  *)
(***************************************************************************)
EXTENDS Integers, Sequences, FiniteSets, TLC

VARIABLES
  call,        \* the arguments of the function call under study (run(), or the matcher functions)
  result,      \* what that call did: for run() its status, result, the commands executed, the sleeps
  host_os,     \* platform.system() of the host the build directory lives on
  config_file, \* build-action-config.json in the build directory: absent, malformed or a record
  pc,          \* position of the current process: idle (none running), a step, or done
  cmdline,     \* the normalized command-line arguments (args) of the current process
  events,      \* annotations written and external commands executed by the current process
  failures,    \* test_step's list of failed tests
  test_env,    \* what test_step met for each declared test: executable present? outcome of running it
  summary,     \* test_step's summary line, if it wrote one
  raised,      \* the exception that ended the current process, or "none"
  exit_code,   \* the exit status of the current process once done, -1 before
  started,     \* the steps the current process has entered (execute_step), in order
  host_env     \* what the step under study met on the host (probes, process outcomes), if recorded

vars == <<call, result, host_os, config_file, pc, cmdline, events, failures, test_env,
          summary, raised, exit_code, started, host_env>>

----------------------------------------------------------------------------
(* Bounds *)

\* Largest retry_count passed to run() in the executor specification.
MaxRetry == 3

\* The retry counts passed to run(): max(retry_count, 1) clamps the non-positive ones.
RetryCounts == (0 - 1)..MaxRetry

----------------------------------------------------------------------------
(* Texts and Python helpers *)

None == <<>>

Some(x) == <<x>>

Max(a, b) == IF a >= b THEN a ELSE b

\* Python: pat in text (substring test), on word sequences.
Contains(pat, text) ==
  \E i \in 0..(Len(text) - Len(pat)) : SubSeq(text, i + 1, i + Len(pat)) = pat

apt_retry_patterns ==
  << <<"Connection", "timed", "out">>, <<"Internal", "Server", "Error">> >>

\* What one execution of an external process can do: exit with a code and
\* captured output, or fail to start at all (OSError from subprocess.run).
Exited(code, out, err) ==
  [kind |-> "exit", returncode |-> code, stdout |-> out, stderr |-> err]

SpawnError == [kind |-> "oserror", returncode |-> -1, stdout |-> <<>>, stderr |-> <<>>]

ProcOutcomes ==
  { Exited(0, <<>>, <<>>),
    Exited(1, <<"E:", "Connection", "timed", "out">>, <<>>),
    Exited(1, <<>>, <<"E:", "Connection", "timed", "out">>),
    Exited(100, <<>>, <<"500", "Internal", "Server", "Error">>),
    Exited(1, <<"Connection", "timed">>, <<"error:", "undefined", "reference">>),
    Exited(2, <<>>, <<>>),
    SpawnError }

----------------------------------------------------------------------------
(* Command executor: run() *)

\* Mutant of has_sudo: sudo is taken to be available without a probe.
has_sudo_always(host_sudo) == TRUE

\* has_sudo(): the cached probe of `sudo --version`; the host decides.
has_sudo(host_sudo) == host_sudo

\* Lines 186-192: the first pattern of the list found in stdout or stderr.
RECURSIVE first_match(_, _, _, _)
first_match(patterns, j, out, err) ==
  IF j > Len(patterns) THEN None
  ELSE IF Contains(patterns[j], out) \/ Contains(patterns[j], err) THEN Some(patterns[j])
  ELSE first_match(patterns, j + 1, out, err)

\* Mutant of retry_pattern_matched: any failure counts as a match of the first pattern.
retry_pattern_matched_any(retry_patterns, out, err) ==
  IF retry_patterns # None /\ retry_patterns[1] # <<>>
  THEN Some(retry_patterns[1][1])
  ELSE None

\* `if retry_patterns:` -- None and the empty list are both falsy.
retry_pattern_matched(retry_patterns, out, err) ==
  IF retry_patterns # None /\ retry_patterns[1] # <<>>
  THEN first_match(retry_patterns[1], 1, out, err)
  ELSE None

\* `if retry_pattern_matched and ...` -- None and the empty string are falsy.
Truthy(opt) == opt # None /\ opt[1] # <<>>

\* Lines 177-202: iteration i of `for i in range(retry_count)` and everything
\* that follows it. oracle[i + 1] is the outcome of the (i+1)-th execution of
\* the command. A loop that runs out of iterations falls through (returns None).
RECURSIVE run_loop_short(_, _, _, _, _, _)
run_loop_short(i, args, check, retry_patterns, retry_count, oracle) ==
  IF i >= retry_count
  THEN [status |-> "fellthrough", error |-> "none", returncode |-> 0,
        stdout |-> <<>>, stderr |-> <<>>, executed |-> <<>>, sleeps |-> 0]
  ELSE
  LET o == oracle[i + 1]
      done(status, error) ==
        [status |-> status, error |-> error, returncode |-> o.returncode,
         stdout |-> o.stdout, stderr |-> o.stderr,
         executed |-> <<args>>, sleeps |-> 0]
  IN
  IF o.kind = "oserror" THEN done("raised", "OSError")
  ELSE IF ~check \/ o.returncode = 0 THEN done("returned", "none")
  ELSE
    IF Truthy(retry_pattern_matched(retry_patterns, o.stdout, o.stderr)) /\ i < retry_count - 2
    THEN LET rest == run_loop_short(i + 1, args, check, retry_patterns, retry_count, oracle)
         IN [rest EXCEPT !.executed = <<args>> \o @, !.sleeps = @ + 1]
    ELSE done("raised", "CalledProcessError")

RECURSIVE run_loop(_, _, _, _, _, _)
run_loop(i, args, check, retry_patterns, retry_count, oracle) ==
  IF i >= retry_count
  THEN [status |-> "fellthrough", error |-> "none", returncode |-> 0,
        stdout |-> <<>>, stderr |-> <<>>, executed |-> <<>>, sleeps |-> 0]
  ELSE
  LET o == oracle[i + 1]
      done(status, error) ==
        [status |-> status, error |-> error, returncode |-> o.returncode,
         stdout |-> o.stdout, stderr |-> o.stderr,
         executed |-> <<args>>, sleeps |-> 0]
  IN
  IF o.kind = "oserror" THEN done("raised", "OSError")
  ELSE IF ~check \/ o.returncode = 0 THEN done("returned", "none")
  ELSE
    IF Truthy(retry_pattern_matched(retry_patterns, o.stdout, o.stderr)) /\ i < retry_count - 1
    THEN LET rest == run_loop(i + 1, args, check, retry_patterns, retry_count, oracle)
         IN [rest EXCEPT !.executed = <<args>> \o @, !.sleeps = @ + 1]
    ELSE done("raised", "CalledProcessError")

\* Mutant of run: retry_count is used as given, not clamped to at least 1.
run_noclamp(args, check, sudo, retry_patterns, retry_count, host_sudo, oracle) ==
  LET argv == IF sudo /\ has_sudo(host_sudo) THEN <<"sudo">> \o args ELSE args
  IN run_loop(0, argv, check, retry_patterns, retry_count, oracle)

\* Mutant of run: the exit code is checked whatever the caller asked for.
run_checking(args, check, sudo, retry_patterns, retry_count, host_sudo, oracle) ==
  LET argv == IF sudo /\ has_sudo(host_sudo) THEN <<"sudo">> \o args ELSE args
  IN run_loop(0, argv, TRUE, retry_patterns, Max(retry_count, 1), oracle)

\* run(args, check, sudo, retry_patterns, retry_count) on a host where the sudo
\* probe answers host_sudo and the executions meet the outcomes of oracle.
run(args, check, sudo, retry_patterns, retry_count, host_sudo, oracle) ==
  LET argv == IF sudo /\ has_sudo(host_sudo) THEN <<"sudo">> \o args ELSE args
  IN run_loop(0, argv, check, retry_patterns, Max(retry_count, 1), oracle)

----------------------------------------------------------------------------
(* Log annotations and problem matchers *)

\* One line of interest written to the log, or one external command executed.
Ev(type, what) == [type |-> type, what |-> what]

\* begin_group / end_group write only when log_options["groups"] is set (step all).
begin_group(groups, group) == IF groups THEN <<Ev("group", <<group>>)>> ELSE <<>>

end_group(groups, group) == IF groups THEN <<Ev("endgroup", <<>>)>> ELSE <<>>

\* Mutant of pluralize: the plural whatever the count.
pluralize_always(s, count) == s \o "s"

pluralize(s, count) == IF count = 1 THEN s ELSE s \o "s"

problem_matcher_names == {"compile", "analyze-build", "asan", "msan", "ubsan", "valgrind"}

problem_matcher_definitions ==
  [pm \in problem_matcher_names |->
     CASE pm = "compile"       -> [scope |-> "build",   provides |-> <<"compile-gcc", "compile-msvc">>]
       [] pm = "analyze-build" -> [scope |-> "analyze", provides |-> <<"analyze-build">>]
       [] pm = "asan"          -> [scope |-> "run",     provides |-> <<"asan">>]
       [] pm = "msan"          -> [scope |-> "run",     provides |-> <<"msan">>]
       [] pm = "ubsan"         -> [scope |-> "run",     provides |-> <<"ubsan">>]
       [] pm = "valgrind"      -> [scope |-> "run",     provides |-> <<"valgrind-commons", "valgrind-memcheck">>]]

\* Mutant of problem_matcher_substitutions: no legacy name is renamed.
problem_matcher_substitutions_none(pm) == pm

\* backward compatibility: old problem matcher names
problem_matcher_substitutions(pm) == IF pm = "cpp" THEN "compile" ELSE pm

\* The else-branch loop of process_problem_matchers over the comma-separated
\* pieces from index j on: [error, out].
RECURSIVE process_pieces(_, _)
process_pieces(pieces, j) ==
  IF j > Len(pieces) THEN [error |-> "none", out |-> <<>>]
  ELSE IF pieces[j] = "" THEN process_pieces(pieces, j + 1)
  ELSE LET pm == problem_matcher_substitutions(pieces[j]) IN
       IF pm \notin problem_matcher_names
       THEN [error |-> "TypeError", out |-> <<>>]   \* raise("...") of a str
       ELSE LET rest == process_pieces(pieces, j + 1)
            IN [rest EXCEPT !.out = <<pm>> \o @]

\* Mutant of process_problem_matchers: auto resolves to the compile matcher alone.
process_problem_matchers_compile_only(problem_matcher, diagnostics) ==
  IF problem_matcher = <<"auto">>
  THEN [error |-> "none", out |-> <<"compile">>]
  ELSE process_pieces(problem_matcher, 1)

\* process_problem_matchers(problem_matcher, diagnostics); the option value is
\* given as its comma-separated pieces ("" is <<"">>, "auto" is <<"auto">>).
process_problem_matchers(problem_matcher, diagnostics) ==
  IF problem_matcher = <<"auto">>
  THEN [error |-> "none",
        out |-> <<"compile">>
                \o (IF diagnostics = "analyze-build" THEN <<"analyze-build">> ELSE <<>>)
                \o (IF diagnostics = "asan" THEN <<"asan">> ELSE <<>>)
                \o (IF diagnostics = "msan" THEN <<"msan">> ELSE <<>>)
                \o (IF diagnostics = "ubsan" THEN <<"ubsan">> ELSE <<>>)
                \o (IF diagnostics = "valgrind" THEN <<"valgrind">> ELSE <<>>)]
  ELSE process_pieces(problem_matcher, 1)

RECURSIVE begin_problem_matchers(_, _)
begin_problem_matchers(problem_matchers, scope) ==
  IF problem_matchers = <<>> THEN <<>>
  ELSE LET pm == Head(problem_matchers) IN
       (IF problem_matcher_definitions[pm].scope = scope
        THEN <<Ev("add-matcher", <<pm>>)>> ELSE <<>>)
       \o begin_problem_matchers(Tail(problem_matchers), scope)

\* One remove-matcher line per provider of the matcher.
remove_lines(provides) == [i \in 1..Len(provides) |-> Ev("remove-matcher", <<provides[i]>>)]

\* Mutant of end_problem_matchers: only the first provider of a matcher is removed.
RECURSIVE end_problem_matchers_first(_, _)
end_problem_matchers_first(problem_matchers, scope) ==
  IF problem_matchers = <<>> THEN <<>>
  ELSE LET pm == Head(problem_matchers) IN
       (IF problem_matcher_definitions[pm].scope = scope
        THEN <<Ev("remove-matcher", <<problem_matcher_definitions[pm].provides[1]>>)>> ELSE <<>>)
       \o end_problem_matchers_first(Tail(problem_matchers), scope)

RECURSIVE end_problem_matchers(_, _)
end_problem_matchers(problem_matchers, scope) ==
  IF problem_matchers = <<>> THEN <<>>
  ELSE LET pm == Head(problem_matchers) IN
       (IF problem_matcher_definitions[pm].scope = scope
        THEN remove_lines(problem_matcher_definitions[pm].provides) ELSE <<>>)
       \o end_problem_matchers(Tail(problem_matchers), scope)

\* The executions of one run() call, as events.
exec_events(r) == [i \in 1..Len(r.executed) |-> Ev("exec", r.executed[i])]

----------------------------------------------------------------------------
(* Command line, input configuration files and the persisted record *)

\* JSON values that as_list tells apart: a string or a list of strings.
JStr(x) == [type |-> "str", str |-> x, items |-> <<>>]

JList(l) == [type |-> "list", str |-> "", items |-> l]

as_list(x) ==
  IF x.type = "list" THEN x.items
  ELSE IF x.str = "" THEN <<>>
  ELSE <<x.str>>

default_valgrind_arguments ==
  <<"--leak-check=full", "--show-reachable=yes", "--track-origins=yes">>

is_compiler_gcc(compiler) == compiler \in {"gcc", "gcc-13"}

is_compiler_clang(compiler) == compiler \in {"clang", "clang-17"}

is_visual_studio(generator) ==
  generator \in {"Visual Studio 14 2015", "Visual Studio 15 2017",
                 "Visual Studio 16 2019", "Visual Studio 17 2022"}

cpp_compiler_executable(compiler) ==
  CASE compiler = "gcc" -> "g++"
    [] compiler = "gcc-13" -> "g++-13"
    [] compiler = "clang" -> "clang++"
    [] compiler = "clang-17" -> "clang++-17"
    [] OTHER -> "ValueError"

analyze_build_executable(compiler) ==
  CASE compiler = "clang" -> "analyze-build"
    [] compiler = "clang-17" -> "analyze-build-17"
    [] OTHER -> compiler

architecture_vs_platform_map(arch) ==
  CASE arch = "x86" -> "Win32"
    [] arch = "x64" -> "x64"
    [] arch = "arm" -> "ARM"
    [] arch = "aarch64" -> "ARM64"

\* The JSON files --config can name. "" stands for no --config option.
InputConfig(name) ==
  CASE name = "tests.json" ->
         [tests |-> << [cmd |-> <<"a">>], [cmd |-> <<"b">>, optional |-> TRUE] >>]
    [] name = "full.json" ->
         [tests |-> << [cmd |-> <<"a", "--quick">>],
                       [cmd |-> <<"b">>, optional |-> FALSE],
                       [cmd |-> <<"c">>, optional |-> TRUE] >>,
          valgrind_arguments |-> <<"--error-exitcode=1">>,
          diagnostics |-> [valgrind |-> [definitions |-> JStr("USE_VALGRIND=1")],
                           asan |-> [definitions |-> JList(<<"USE_ASAN=1", "DEBUG=1">>)]]]
    [] name = "record.json" ->
         [build |-> [build_tool |-> "make"],
          tests |-> << [cmd |-> <<"a">>] >>]
    [] OTHER -> <<>>

ConfigNames == {"", "tests.json", "full.json", "record.json"}

\* The command lines the model starts processes with (before
\* normalize_arguments). An option that the chosen step never reads is left at
\* the parser's default: prepare_step reads compiler, diagnostics, generator
\* and architecture; build_step reads compiler and problem_matcher (resolved
\* from diagnostics); test_step reads problem_matcher; configure_step reads
\* everything but problem_matcher. Step all is started on fewer command lines,
\* its four steps being the same code as the single steps.
CommandLines ==
  [step : {"prepare"},
   compiler : {"gcc", "clang"}, diagnostics : {"", "valgrind", "analyze-build"},
   generator : {"", "Visual Studio 17 2022"}, architecture : {"x64"},
   build_type : {""}, build_defs : {<<>>}, config : {""}, problem_matcher : {<<"">>}]
  \cup
  [step : {"configure"},
   compiler : {"gcc", "clang"}, diagnostics : {"", "valgrind", "analyze-build"},
   generator : {"", "Visual Studio 17 2022"}, architecture : {"x64"},
   build_type : {"", "Release"}, build_defs : {<<>>}, config : ConfigNames,
   problem_matcher : {<<"">>}]
  \cup
  [step : {"build"},
   compiler : {"gcc", "clang"}, diagnostics : {"", "valgrind", "analyze-build"},
   generator : {""}, architecture : {"x64"},
   build_type : {""}, build_defs : {<<>>}, config : {""},
   problem_matcher : {<<"auto">>, <<"">>}]
  \cup
  [step : {"test"},
   compiler : {""}, diagnostics : {"", "valgrind", "analyze-build"},
   generator : {""}, architecture : {"x64"},
   build_type : {""}, build_defs : {<<>>}, config : {""},
   problem_matcher : {<<"auto">>, <<"">>, <<"asan", "valgrind", "valgrind">>}]
  \cup
  [step : {"all"},
   compiler : {"gcc", "clang"}, diagnostics : {"", "valgrind", "analyze-build"},
   generator : {""}, architecture : {"x64"},
   build_type : {"Release"}, build_defs : {<<>>}, config : {"tests.json"},
   problem_matcher : {<<"auto">>}]

\* normalize_arguments: the legacy diagnostics name, the default generator and
\* the resolved problem matchers. [error, args].
normalize_arguments(a, os) ==
  LET diagnostics == IF a.diagnostics = "scan-build" THEN "analyze-build" ELSE a.diagnostics
      generator ==
        IF a.generator # "" THEN a.generator
        ELSE CASE a.compiler = "vs2015" -> "Visual Studio 14 2015"
               [] a.compiler = "vs2017" -> "Visual Studio 15 2017"
               [] a.compiler = "vs2019" -> "Visual Studio 16 2019"
               [] a.compiler = "vs2022" -> "Visual Studio 17 2022"
               [] OTHER -> IF os \in {"Darwin", "FreeBSD", "NetBSD", "OpenBSD"}
                           THEN "Unix Makefiles" ELSE "Ninja"
      pm == process_problem_matchers(a.problem_matcher, diagnostics)
  IN [error |-> pm.error,
      args |-> [a EXCEPT !.diagnostics = diagnostics, !.generator = generator,
                         !.problem_matcher = pm.out]]

NoArgs ==
  [step |-> "", compiler |-> "", diagnostics |-> "", generator |-> "", architecture |-> "",
   build_type |-> "", build_defs |-> <<>>, config |-> "", problem_matcher |-> <<>>]

NoFile == [state |-> "absent", data |-> <<>>]

Garbage == [state |-> "malformed", data |-> <<>>]

Record(data) == [state |-> "valid", data |-> data]

----------------------------------------------------------------------------
(* The steps. Each is given the normalized arguments a, whether log groups   *)
(* are on, the file in the build directory and what the environment does,    *)
(* and yields the exception it raises ("none" if it returns), the events it  *)
(* produces and the file it leaves.                                          *)

build_dir == "build"

actions_config_name == "build-action-config.json"

\* A call of run() with the defaults of its optional parameters.
run_default(cmd, oracle) == run(cmd, TRUE, FALSE, None, 3, FALSE, oracle)

\* The outcome sequence of a command that behaves the same on every execution.
Always(o) == [i \in 1..Max(MaxRetry, 1) |-> o]

\* One planned call of run(): the command, sudo, the retry patterns and the
\* outcomes its executions meet.
Planned(cmd, sudo, retry_patterns, oracle) ==
  [cmd |-> cmd, sudo |-> sudo, retry_patterns |-> retry_patterns, oracle |-> oracle]

\* The calls of a sequence made in order until one raises. [raised, events].
RECURSIVE run_all(_, _, _)
run_all(calls, j, host_sudo) ==
  IF j > Len(calls) THEN [raised |-> "none", events |-> <<>>]
  ELSE LET c == calls[j]
           r == run(c.cmd, TRUE, c.sudo, c.retry_patterns, 3, host_sudo, c.oracle)
       IN IF r.status = "raised"
          THEN [raised |-> r.error, events |-> exec_events(r)]
          ELSE LET rest == run_all(calls, j + 1, host_sudo)
               IN [rest EXCEPT !.events = exec_events(r) \o @]

apt_llvm_versions == {"16", "17"}

compiler_version(compiler) ==
  CASE compiler = "gcc-13" -> "13"
    [] compiler = "clang-17" -> "17"
    [] OTHER -> ""

\* Mutant of prepare_bsd: cmake is installed without being probed.
prepare_bsd_no_probe(a, os, env) ==
  LET compiler_pkg ==
        IF "cc" \in env.present THEN <<>>
        ELSE IF os = "FreeBSD"
             THEN (IF a.compiler = "clang" THEN <<"llvm">>
                   ELSE <<"llvm" \o compiler_version(a.compiler)>>)
             ELSE <<a.compiler>>
      packages == <<"cmake">> \o compiler_pkg
      install == CASE os = "FreeBSD" -> <<"pkg", "install", "-y">>
                   [] os = "NetBSD" /\ env.use_pkgin -> <<"pkgin", "-y", "install">>
                   [] OTHER -> <<"pkg_add", "-I">>
  IN IF ~is_compiler_clang(a.compiler)
     THEN [raised |-> "ValueError", events |-> <<>>]
     ELSE run_all(<<Planned(install \o packages, ~env.is_root, None, env.oracles[4])>>,
                  1, env.host_sudo)

\* Lines 515-569 of prepare_step: FreeBSD, NetBSD and OpenBSD. env.present is
\* the set of tools whose version probe succeeds.
prepare_bsd(a, os, env) ==
  LET cmake == IF "cmake" \in env.present THEN <<>> ELSE <<"cmake">>
      compiler_pkg ==
        IF "cc" \in env.present THEN <<>>
        ELSE IF os = "FreeBSD"
             THEN (IF a.compiler = "clang" THEN <<"llvm">>
                   ELSE <<"llvm" \o compiler_version(a.compiler)>>)
             ELSE <<a.compiler>>
      packages == cmake \o compiler_pkg
      install == CASE os = "FreeBSD" -> <<"pkg", "install", "-y">>
                   [] os = "NetBSD" /\ env.use_pkgin -> <<"pkgin", "-y", "install">>
                   [] OTHER -> <<"pkg_add", "-I">>
  IN IF ~is_compiler_clang(a.compiler)
     THEN [raised |-> "ValueError", events |-> <<>>]
     ELSE IF packages = <<>> THEN [raised |-> "none", events |-> <<>>]
     ELSE run_all(<<Planned(install \o packages, ~env.is_root, None, env.oracles[4])>>,
                  1, env.host_sudo)

\* Lines 574-621 of prepare_step: Linux.
prepare_linux(a, env) ==
  LET compiler_package == IF is_compiler_gcc(a.compiler)
                          THEN cpp_compiler_executable(a.compiler) ELSE a.compiler
      compiler_exists == "cc" \in env.present /\ "c++" \in env.present
      multilib ==
        IF a.architecture = "x86"
        THEN <<"linux-libc-dev:i386">>
             \o (IF is_compiler_gcc(a.compiler)
                 THEN <<compiler_package \o "-multilib">> ELSE <<"g++-multilib">>)
        ELSE <<>>
      need_tools == a.diagnostics = "analyze-build" /\ "analyze-build" \notin env.present
      packages ==
        (IF compiler_exists THEN <<>> ELSE <<compiler_package>>)
        \o multilib
        \o (IF "cmake" \in env.present THEN <<>> ELSE <<"cmake">>)
        \o (IF a.generator = "Ninja" /\ "ninja" \notin env.present THEN <<"ninja-build">> ELSE <<>>)
        \o (IF a.diagnostics = "valgrind" /\ "valgrind" \notin env.present
            THEN <<"valgrind">> ELSE <<>>)
        \o (IF need_tools
            THEN <<IF a.compiler = "clang" THEN "clang-tools"
                   ELSE "clang-tools-" \o compiler_version(a.compiler)>>
            ELSE <<>>)
      dpkg == run_all(IF a.architecture = "x86"
                      THEN <<Planned(<<"dpkg", "--add-architecture", "i386">>, TRUE, None,
                                     env.oracles[1])>>
                      ELSE <<>>, 1, env.host_sudo)
      llvm == /\ a.compiler = "clang-17"
              /\ ~compiler_exists
              /\ compiler_version(a.compiler) \in apt_llvm_versions
      repository ==
        IF llvm
        THEN <<Planned(<<"mv", "llvm.sources", "/etc/apt/sources.list.d/llvm.sources">>,
                       TRUE, None, env.oracles[2])>>
        ELSE IF env.os_id = "ubuntu"
        THEN <<Planned(<<"add-apt-repository", "-y", "ppa:ubuntu-toolchain-r/test">>,
                       TRUE, None, env.oracles[2])>>
        ELSE <<>>
      install == run_all(repository
                         \o <<Planned(<<"apt-get", "update", "-qq">>, TRUE,
                                      Some(apt_retry_patterns), env.oracles[3]),
                              Planned(<<"apt-get", "install", "-qq">> \o packages, TRUE,
                                      Some(apt_retry_patterns), env.oracles[4])>>,
                         1, env.host_sudo)
  IN IF ~(is_compiler_gcc(a.compiler) \/ is_compiler_clang(a.compiler))
     THEN [raised |-> "ValueError", events |-> <<>>]
     ELSE IF dpkg.raised # "none" THEN dpkg
     ELSE IF need_tools /\ ~is_compiler_clang(a.compiler)
     THEN [raised |-> "ValueError", events |-> dpkg.events]
     ELSE IF packages = <<>> THEN dpkg
     ELSE IF llvm /\ ~(env.codename /\ env.llvm_remote)
     THEN [raised |-> "ValueError", events |-> dpkg.events]
     ELSE [raised |-> install.raised, events |-> dpkg.events \o install.events]

\* prepare_step (lines 485-626): it neither reads nor writes the build directory.
prepare_step(a, groups, file, os, env) ==
  LET body == CASE os \in {"Windows", "Darwin"} -> [raised |-> "none", events |-> <<>>]
                [] os \in {"FreeBSD", "NetBSD", "OpenBSD"} -> prepare_bsd(a, os, env)
                [] os = "Linux" -> prepare_linux(a, env)
                [] OTHER -> [raised |-> "ValueError", events |-> <<>>]
  IN [raised |-> body.raised,
      events |-> begin_group(groups, "Prepare") \o body.events
                 \o (IF body.raised = "none" THEN end_group(groups, "Prepare") ELSE <<>>),
      file |-> file]

\* Lines 661-687: the cmake command line of configure_step.
configure_cmd(a, actions_config) ==
  <<"cmake", "source_dir", "-G", a.generator>>
  \o (IF is_visual_studio(a.generator)
      THEN <<"-A", architecture_vs_platform_map(a.architecture)>>
      ELSE IF a.build_type # "" THEN <<"-DCMAKE_BUILD_TYPE=" \o a.build_type>> ELSE <<>>)
  \o [i \in 1..Len(a.build_defs) |-> "-D" \o a.build_defs[i]]
  \o (IF a.diagnostics # ""
         /\ "diagnostics" \in DOMAIN actions_config
         /\ a.diagnostics \in DOMAIN actions_config.diagnostics
         /\ "definitions" \in DOMAIN actions_config.diagnostics[a.diagnostics]
      THEN LET dd == as_list(actions_config.diagnostics[a.diagnostics].definitions)
           IN [i \in 1..Len(dd) |-> "-D" \o dd[i]]
      ELSE <<>>)
  \o <<"-DCMAKE_EXPORT_COMPILE_COMMANDS=ON">>

\* Lines 693-702: the "build" entry configure_step adds to the configuration.
build_entry(a) ==
  [build_tool |-> "cmake",
   build_type |-> a.build_type,
   build_defs |-> a.build_defs,
   config |-> a.config,
   compiler |-> a.compiler,
   generator |-> a.generator,
   diagnostics |-> a.diagnostics,
   architecture |-> a.architecture]

\* Mutant of with_build: the record holds the build entry alone.
with_build_alone(actions_config, entry) == [k \in {"build"} |-> entry]

\* actions_config["build"] = {...}: the input configuration with the build entry set.
with_build(actions_config, entry) ==
  [k \in DOMAIN actions_config \cup {"build"} |->
     IF k = "build" THEN entry ELSE actions_config[k]]

\* Mutant of configure_step: the record is written before cmake is invoked.
configure_step_write_first(a, groups, file, oracle) ==
  LET actions_config == IF a.config # "" THEN InputConfig(a.config) ELSE <<>>
      r == run_default(configure_cmd(a, actions_config), oracle)
      head == begin_group(groups, "Configure") \o exec_events(r)
      written == Record(with_build(actions_config, build_entry(a)))
  IN IF r.status = "raised"
     THEN [raised |-> r.error, events |-> head, file |-> written]
     ELSE [raised |-> "none", events |-> head \o end_group(groups, "Configure"),
           file |-> written]

\* configure_step (lines 633-707).
configure_step(a, groups, file, oracle) ==
  LET actions_config == IF a.config # "" THEN InputConfig(a.config) ELSE <<>>
      valid_env == is_visual_studio(a.generator)
                   \/ is_compiler_gcc(a.compiler) \/ is_compiler_clang(a.compiler)
      r == run_default(configure_cmd(a, actions_config), oracle)
      head == begin_group(groups, "Configure") \o exec_events(r)
  IN IF ~valid_env
     THEN [raised |-> "ValueError", events |-> begin_group(groups, "Configure"), file |-> file]
     ELSE IF r.status = "raised"
     THEN [raised |-> r.error, events |-> head, file |-> file]
     ELSE [raised |-> "none", events |-> head \o end_group(groups, "Configure"),
           file |-> Record(with_build(actions_config, build_entry(a)))]

\* read_json_file on the configuration file of the build directory: the
\* exception open() or json.load() raises, or "none".
read_json_error(file) ==
  CASE file.state = "absent" -> "FileNotFoundError"
    [] file.state = "malformed" -> "JSONDecodeError"
    [] OTHER -> "none"

cpu_count == "4"

\* Mutant of build_analysis: the analyze-scope matchers are removed before the
\* analysis command is run.
build_analysis_early_removal(a, groups, oracle) ==
  LET analyze_cmd == <<analyze_build_executable(a.compiler), "-v",
                       "--cdb", build_dir \o "/" \o "compile_commands.json",
                       "--output", "analysis-output">>
      r == run_default(analyze_cmd, oracle)
      head == begin_group(groups, "Analysis")
              \o begin_problem_matchers(a.problem_matcher, "analyze")
              \o end_problem_matchers(a.problem_matcher, "analyze")
              \o exec_events(r)
  IN IF r.status = "raised"
     THEN [raised |-> r.error, events |-> head]
     ELSE [raised |-> "none", events |-> head \o end_group(groups, "Analysis")]

\* Lines 725-737 of build_step: the analysis pass. [raised, events].
build_analysis(a, groups, oracle) ==
  LET analyze_cmd == <<analyze_build_executable(a.compiler), "-v",
                       "--cdb", build_dir \o "/" \o "compile_commands.json",
                       "--output", "analysis-output">>
      r == run_default(analyze_cmd, oracle)
      head == begin_group(groups, "Analysis")
              \o begin_problem_matchers(a.problem_matcher, "analyze")
              \o exec_events(r)
  IN IF r.status = "raised"
     THEN [raised |-> r.error, events |-> head]
     ELSE [raised |-> "none",
           events |-> head \o end_problem_matchers(a.problem_matcher, "analyze")
                           \o end_group(groups, "Analysis")]

\* Lines 739-747 of build_step: the main build. [raised, events].
build_main(a, groups, generator, build_type, oracle) ==
  LET cmd == <<"cmake", "--build", build_dir, "--parallel", cpu_count>>
             \o (IF is_visual_studio(generator)
                 THEN <<"--config", build_type, "--", "-nologo", "-v:minimal">> ELSE <<>>)
      r == run_default(cmd, oracle)
      head == begin_group(groups, "Build")
              \o begin_problem_matchers(a.problem_matcher, "build")
              \o exec_events(r)
  IN IF r.status = "raised"
     THEN [raised |-> r.error, events |-> head]
     ELSE [raised |-> "none",
           events |-> head \o end_problem_matchers(a.problem_matcher, "build")
                           \o end_group(groups, "Build")]

\* Mutant of build_step: the build-scope matchers are added before the
\* configuration is read.
build_step_matchers_first(a, groups, file, analyze_oracle, build_oracle) ==
  IF read_json_error(file) # "none"
  THEN [raised |-> read_json_error(file),
        events |-> begin_problem_matchers(a.problem_matcher, "build"), file |-> file]
  ELSE
    LET build == file.data.build
        analysis == IF build.diagnostics = "analyze-build"
                    THEN build_analysis(a, groups, analyze_oracle)
                    ELSE [raised |-> "none", events |-> <<>>]
        main == build_main(a, groups, build.generator, build.build_type, build_oracle)
    IN IF analysis.raised # "none"
       THEN [raised |-> analysis.raised, events |-> analysis.events, file |-> file]
       ELSE [raised |-> main.raised, events |-> analysis.events \o main.events, file |-> file]

\* build_step (lines 714-747).
build_step(a, groups, file, analyze_oracle, build_oracle) ==
  IF read_json_error(file) # "none"
  THEN [raised |-> read_json_error(file), events |-> <<>>, file |-> file]
  ELSE
    LET build == file.data.build
        analysis == IF build.diagnostics = "analyze-build"
                    THEN build_analysis(a, groups, analyze_oracle)
                    ELSE [raised |-> "none", events |-> <<>>]
        main == build_main(a, groups, build.generator, build.build_type, build_oracle)
    IN IF analysis.raised # "none"
       THEN [raised |-> analysis.raised, events |-> analysis.events, file |-> file]
       ELSE [raised |-> main.raised, events |-> analysis.events \o main.events, file |-> file]

\* Mutant of optional: a test without the key counts as optional.
optional_default_true(test) == IF "optional" \in DOMAIN test THEN test.optional ELSE TRUE

\* test.get("optional", False)
optional(test) == IF "optional" \in DOMAIN test THEN test.optional ELSE FALSE

\* Mutant of test_loop: the loop ends at the first test that fails.
RECURSIVE test_loop_stopping(_, _, _, _, _, _, _)
test_loop_stopping(j, tests, build, valgrind_arguments, dir, groups, env) ==
  IF j > Len(tests)
  THEN [raised |-> "none", events |-> <<>>, failures |-> <<>>, tests |-> tests]
  ELSE
    LET test == tests[j]
        app == test.cmd[1]
        executable == dir.path \o "/" \o app \o (IF dir.os = "Windows" THEN ".exe" ELSE "")
    IN
    IF env[j].present
    THEN
      LET cmd == [test.cmd EXCEPT ![1] = executable]
          rewritten == [tests EXCEPT ![j].cmd = cmd]
          wrapped == IF build.diagnostics = "valgrind"
                     THEN <<"valgrind">> \o valgrind_arguments \o cmd ELSE cmd
          r == run(wrapped, FALSE, FALSE, None, 3, FALSE, Always(env[j].outcome))
          here == begin_group(groups, test.cmd) \o exec_events(r) \o end_group(groups, test.cmd)
      IN IF r.status = "raised"
         THEN [raised |-> r.error, events |-> here, failures |-> <<app>>, tests |-> rewritten]
         ELSE IF r.returncode # 0
         THEN [raised |-> "none", events |-> here, failures |-> <<app>>, tests |-> rewritten]
         ELSE LET rest == test_loop_stopping(j + 1, rewritten, build, valgrind_arguments, dir, groups, env)
              IN [rest EXCEPT !.events = here \o @]
    ELSE
      LET rest == test_loop_stopping(j + 1, tests, build, valgrind_arguments, dir, groups, env)
      IN [rest EXCEPT !.failures = (IF optional(test) # TRUE THEN <<app>> ELSE <<>>) \o @]

\* Mutant of test_loop: a test that raises leaves its log scope open.
RECURSIVE test_loop_open_scope(_, _, _, _, _, _, _)
test_loop_open_scope(j, tests, build, valgrind_arguments, dir, groups, env) ==
  IF j > Len(tests)
  THEN [raised |-> "none", events |-> <<>>, failures |-> <<>>, tests |-> tests]
  ELSE
    LET test == tests[j]
        app == test.cmd[1]
        executable == dir.path \o "/" \o app \o (IF dir.os = "Windows" THEN ".exe" ELSE "")
    IN
    IF env[j].present
    THEN
      LET cmd == [test.cmd EXCEPT ![1] = executable]
          rewritten == [tests EXCEPT ![j].cmd = cmd]
          wrapped == IF build.diagnostics = "valgrind"
                     THEN <<"valgrind">> \o valgrind_arguments \o cmd ELSE cmd
          r == run(wrapped, FALSE, FALSE, None, 3, FALSE, Always(env[j].outcome))
          here == begin_group(groups, test.cmd) \o exec_events(r) \o end_group(groups, test.cmd)
      IN IF r.status = "raised"
         THEN [raised |-> r.error, events |-> begin_group(groups, test.cmd) \o exec_events(r),
               failures |-> <<app>>, tests |-> rewritten]
         ELSE LET rest == test_loop_open_scope(j + 1, rewritten, build, valgrind_arguments, dir, groups, env)
              IN [rest EXCEPT !.events = here \o @,
                              !.failures = (IF r.returncode # 0 THEN <<app>> ELSE <<>>) \o @]
    ELSE
      LET rest == test_loop_open_scope(j + 1, tests, build, valgrind_arguments, dir, groups, env)
      IN [rest EXCEPT !.failures = (IF optional(test) # TRUE THEN <<app>> ELSE <<>>) \o @]

\* Lines 773-804 of test_step: the loop over the tests from index j on. tests is
\* the in-memory list (cmd[0] = executable rewrites the element of a test that
\* ran); env[j] tells whether the j-th executable is a file and what running
\* it does. [raised, events, failures, tests].
RECURSIVE test_loop(_, _, _, _, _, _, _)
test_loop(j, tests, build, valgrind_arguments, dir, groups, env) ==
  IF j > Len(tests)
  THEN [raised |-> "none", events |-> <<>>, failures |-> <<>>, tests |-> tests]
  ELSE
    LET test == tests[j]
        app == test.cmd[1]
        executable == dir.path \o "/" \o app \o (IF dir.os = "Windows" THEN ".exe" ELSE "")
    IN
    IF env[j].present
    THEN
      LET cmd == [test.cmd EXCEPT ![1] = executable]
          rewritten == [tests EXCEPT ![j].cmd = cmd]
          wrapped == IF build.diagnostics = "valgrind"
                     THEN <<"valgrind">> \o valgrind_arguments \o cmd ELSE cmd
          r == run(wrapped, FALSE, FALSE, None, 3, FALSE, Always(env[j].outcome))
          here == begin_group(groups, test.cmd) \o exec_events(r) \o end_group(groups, test.cmd)
      IN IF r.status = "raised"
         THEN [raised |-> r.error, events |-> here, failures |-> <<app>>, tests |-> rewritten]
         ELSE LET rest == test_loop(j + 1, rewritten, build, valgrind_arguments, dir, groups, env)
              IN [rest EXCEPT !.events = here \o @,
                              !.failures = (IF r.returncode # 0 THEN <<app>> ELSE <<>>) \o @]
    ELSE
      LET rest == test_loop(j + 1, tests, build, valgrind_arguments, dir, groups, env)
      IN [rest EXCEPT !.failures = (IF optional(test) # TRUE THEN <<app>> ELSE <<>>) \o @]

\* Mutant of test_run: the matchers are removed after the summary line.
test_run_late_removal(a, groups, file, os, nested, env) ==
  LET actions_config == file.data
      build_type == actions_config.build.build_type
      path == IF build_type # "" /\ nested THEN build_dir \o "/" \o build_type ELSE build_dir
      tests == IF "tests" \in DOMAIN actions_config THEN actions_config.tests ELSE <<>>
      valgrind_arguments == IF "valgrind_arguments" \in DOMAIN actions_config
                            THEN actions_config.valgrind_arguments
                            ELSE default_valgrind_arguments
      loop == test_loop(1, tests, actions_config.build, valgrind_arguments,
                        [path |-> path, os |-> os], groups, env)
      n == Len(loop.failures)
      memory == IF "tests" \in DOMAIN actions_config
                THEN [actions_config EXCEPT !.tests = loop.tests] ELSE actions_config
  IN
  IF tests = <<>>
  THEN [raised |-> "none", events |-> <<>>, failures |-> <<>>, summary |-> None,
        exit |-> -1, memory |-> memory]
  ELSE IF loop.raised # "none"
  THEN [raised |-> loop.raised,
        events |-> begin_problem_matchers(a.problem_matcher, "run") \o loop.events,
        failures |-> loop.failures, summary |-> None, exit |-> -1, memory |-> memory]
  ELSE [raised |-> "none",
        events |-> begin_problem_matchers(a.problem_matcher, "run") \o loop.events
                   \o (IF n > 0 THEN <<Ev("summary", loop.failures)>> ELSE <<>>)
                   \o end_problem_matchers(a.problem_matcher, "run"),
        failures |-> loop.failures,
        summary |-> IF n > 0
                    THEN Some([n |-> n, word |-> pluralize("test", n), m |-> Len(tests),
                               names |-> loop.failures])
                    ELSE None,
        exit |-> IF n > 0 THEN 1 ELSE -1,
        memory |-> memory]

\* Lines 759-811 of test_step, everything but what it leaves on disk:
\* [raised, events, failures, summary, exit, memory], memory being the
\* configuration object in memory when the step ends.
test_run(a, groups, file, os, nested, env) ==
  LET actions_config == file.data
      build_type == actions_config.build.build_type
      path == IF build_type # "" /\ nested THEN build_dir \o "/" \o build_type ELSE build_dir
      tests == IF "tests" \in DOMAIN actions_config THEN actions_config.tests ELSE <<>>
      valgrind_arguments == IF "valgrind_arguments" \in DOMAIN actions_config
                            THEN actions_config.valgrind_arguments
                            ELSE default_valgrind_arguments
      loop == test_loop(1, tests, actions_config.build, valgrind_arguments,
                        [path |-> path, os |-> os], groups, env)
      n == Len(loop.failures)
      memory == IF "tests" \in DOMAIN actions_config
                THEN [actions_config EXCEPT !.tests = loop.tests] ELSE actions_config
  IN
  IF tests = <<>>
  THEN [raised |-> "none", events |-> <<>>, failures |-> <<>>, summary |-> None,
        exit |-> -1, memory |-> memory]
  ELSE IF loop.raised # "none"
  THEN [raised |-> loop.raised,
        events |-> begin_problem_matchers(a.problem_matcher, "run") \o loop.events,
        failures |-> loop.failures, summary |-> None, exit |-> -1, memory |-> memory]
  ELSE [raised |-> "none",
        events |-> begin_problem_matchers(a.problem_matcher, "run") \o loop.events
                   \o end_problem_matchers(a.problem_matcher, "run")
                   \o (IF n > 0 THEN <<Ev("summary", loop.failures)>> ELSE <<>>),
        failures |-> loop.failures,
        summary |-> IF n > 0
                    THEN Some([n |-> n, word |-> pluralize("test", n), m |-> Len(tests),
                               names |-> loop.failures])
                    ELSE None,
        exit |-> IF n > 0 THEN 1 ELSE -1,
        memory |-> memory]

NoTestRun ==
  [raised |-> "none", events |-> <<>>, failures |-> <<>>, summary |-> None, exit |-> -1]

\* Mutant of test_step: the configuration in memory is saved back when the step ends.
test_step_saving(a, groups, file, os, nested, env) ==
  IF read_json_error(file) # "none"
  THEN [NoTestRun EXCEPT !.raised = read_json_error(file)] @@ [file |-> file]
  ELSE LET t == test_run(a, groups, file, os, nested, env)
       IN [raised |-> t.raised, events |-> t.events, failures |-> t.failures,
           summary |-> t.summary, exit |-> t.exit, file |-> Record(t.memory)]

\* test_step (lines 754-811): it reads the configuration file and never writes it.
test_step(a, groups, file, os, nested, env) ==
  IF read_json_error(file) # "none"
  THEN [NoTestRun EXCEPT !.raised = read_json_error(file)] @@ [file |-> file]
  ELSE LET t == test_run(a, groups, file, os, nested, env)
       IN [raised |-> t.raised, events |-> t.events, failures |-> t.failures,
           summary |-> t.summary, exit |-> t.exit, file |-> file]

----------------------------------------------------------------------------
(* The processes: main() started on a command line, the steps it dispatches *)
(* to (execute_step), and its exit.                                          *)

Tools == {"cc", "c++", "cmake", "ninja", "valgrind", "analyze-build"}

Timeout == Exited(1, <<>>, <<"E:", "Connection", "timed", "out">>)

\* A command that times out twice and then succeeds.
Flaky == [i \in 1..Max(MaxRetry, 1) |-> IF i < 3 THEN Timeout ELSE Exited(0, <<>>, <<>>)]

\* What prepare_step can meet on the host.
PrepareEnvs ==
  [present : {Tools, {}},
   host_sudo : BOOLEAN,
   is_root : {FALSE},
   os_id : {"ubuntu"},
   codename : {TRUE},
   llvm_remote : {TRUE},
   use_pkgin : {FALSE},
   oracles : { [i \in 1..4 |-> Always(Exited(0, <<>>, <<>>))],
               [i \in 1..4 |-> IF i = 3 THEN Flaky ELSE Always(Exited(0, <<>>, <<>>))],
               [i \in 1..4 |-> IF i = 4 THEN Always(Exited(100, <<>>, <<"E:", "Unable", "to", "locate", "package">>))
                               ELSE Always(Exited(0, <<>>, <<>>))] }]

\* What one declared test can meet: no executable, or an executable and the
\* outcome of running it.
TestEnvEntries ==
  { [present |-> FALSE, outcome |-> Exited(0, <<>>, <<>>)] }
  \cup [present : {TRUE}, outcome : {Exited(0, <<>>, <<>>), Exited(1, <<>>, <<"assertion", "failed">>), SpawnError}]

declared_tests(file) ==
  IF file.state = "valid" /\ "tests" \in DOMAIN file.data THEN file.data.tests ELSE <<>>

NoResult ==
  [status |-> "pending", error |-> "none", returncode |-> 0, stdout |-> <<>>,
   stderr |-> <<>>, executed |-> <<>>, sleeps |-> 0]

NoCall ==
  [args |-> <<>>, check |-> TRUE, sudo |-> FALSE, host_sudo |-> FALSE,
   retry_patterns |-> None, retry_count |-> 3, oracle |-> Always(SpawnError)]

Init ==
  /\ call = NoCall
  /\ result = NoResult
  /\ host_os = "Linux"
  /\ config_file \in {NoFile, Garbage}
  /\ pc = "idle"
  /\ cmdline = NoArgs
  /\ events = <<>>
  /\ failures = <<>>
  /\ test_env = <<>>
  /\ summary = None
  /\ raised = "none"
  /\ exit_code = -1
  /\ started = <<>>
  /\ host_env = None

\* main(), lines 858-864: parse and normalize the arguments, pick the first step.
Start ==
  /\ pc = "idle"
  /\ \E c \in CommandLines :
       LET n == normalize_arguments(c, host_os) IN
       /\ cmdline' = n.args
       /\ raised' = n.error
       /\ pc' = IF n.error # "none" THEN "done"
                ELSE IF c.step = "all" THEN "prepare" ELSE c.step
       /\ exit_code' = IF n.error # "none" THEN 1 ELSE -1
  /\ UNCHANGED <<call, result, host_os, config_file, events, failures, test_env, summary,
                 started, host_env>>

groups_on == cmdline.step = "all"

\* Mutant of AfterStep: step all goes on to the next step whatever the step did.
AfterStep_going_on(step, r, exit) ==
  /\ started' = Append(started, step)
  /\ events' = events \o r.events
  /\ config_file' = r.file
  /\ raised' = r.raised
  /\ IF cmdline.step = "all" /\ step # "test"
     THEN /\ pc' = CASE step = "prepare" -> "configure"
                     [] step = "configure" -> "build"
                     [] step = "build" -> "test"
          /\ exit_code' = -1
     ELSE IF r.raised # "none" \/ exit = 1
     THEN pc' = "done" /\ exit_code' = 1
     ELSE pc' = "done" /\ exit_code' = 0

\* What main() does once execute_step(step) is over: an exception ends the
\* process with a non-zero status, exit(1) of test_step ends it with 1, step
\* all goes on to the step after, and otherwise main() calls exit(0).
AfterStep(step, r, exit) ==
  /\ started' = Append(started, step)
  /\ events' = events \o r.events
  /\ config_file' = r.file
  /\ raised' = r.raised
  /\ IF r.raised # "none" \/ exit = 1
     THEN pc' = "done" /\ exit_code' = 1
     ELSE IF cmdline.step = "all" /\ step # "test"
     THEN /\ pc' = CASE step = "prepare" -> "configure"
                     [] step = "configure" -> "build"
                     [] step = "build" -> "test"
          /\ exit_code' = -1
     ELSE pc' = "done" /\ exit_code' = 0

Prepare ==
  /\ pc = "prepare"
  /\ \E env \in PrepareEnvs :
       /\ AfterStep("prepare", prepare_step(cmdline, groups_on, config_file, host_os, env), -1)
       /\ host_env' = Some(env)
  /\ UNCHANGED <<call, result, host_os, cmdline, failures, test_env, summary>>

Configure ==
  /\ pc = "configure"
  /\ \E o \in ProcOutcomes :
       AfterStep("configure", configure_step(cmdline, groups_on, config_file, Always(o)), -1)
  /\ UNCHANGED <<call, result, host_os, cmdline, failures, test_env, summary, host_env>>

Build ==
  /\ pc = "build"
  /\ \E oa \in ProcOutcomes, ob \in ProcOutcomes :
       AfterStep("build", build_step(cmdline, groups_on, config_file, Always(oa), Always(ob)), -1)
  /\ UNCHANGED <<call, result, host_os, cmdline, failures, test_env, summary, host_env>>

Test ==
  /\ pc = "test"
  /\ \E nested \in BOOLEAN :
     \E env \in [1..Len(declared_tests(config_file)) -> TestEnvEntries] :
       LET r == test_step(cmdline, groups_on, config_file, host_os, nested, env) IN
       /\ AfterStep("test", r, r.exit)
       /\ failures' = r.failures
       /\ summary' = r.summary
       /\ test_env' = env
  /\ UNCHANGED <<call, result, host_os, cmdline, host_env>>

\* The process is over; what it held in memory is gone, the build directory stays.
ProcessExit ==
  /\ pc = "done"
  /\ pc' = "idle"
  /\ cmdline' = NoArgs
  /\ events' = <<>>
  /\ failures' = <<>>
  /\ test_env' = <<>>
  /\ summary' = None
  /\ raised' = "none"
  /\ exit_code' = -1
  /\ started' = <<>>
  /\ host_env' = None
  /\ UNCHANGED <<call, result, host_os, config_file>>

Next == Start \/ Prepare \/ Configure \/ Build \/ Test \/ ProcessExit

Spec == Init /\ [][Next]_vars

----------------------------------------------------------------------------
(* Specification of the executor alone: one call of run() on chosen inputs *)

RetryPatternSets ==
  { None, Some(<<>>), Some(<< <<"Connection", "timed", "out">> >>), Some(apt_retry_patterns) }

Oracles == [1..Max(MaxRetry, 1) -> ProcOutcomes]

InitRun ==
  /\ call \in [args : {<<"apt-get", "update", "-qq">>},
               check : BOOLEAN, sudo : BOOLEAN, host_sudo : BOOLEAN,
               retry_patterns : RetryPatternSets,
               retry_count : RetryCounts,
               oracle : Oracles]
  /\ result = NoResult
  /\ host_os = "Linux"
  /\ config_file = NoFile
  /\ pc = "idle"
  /\ cmdline = NoArgs
  /\ events = <<>>
  /\ failures = <<>>
  /\ test_env = <<>>
  /\ summary = None
  /\ raised = "none"
  /\ exit_code = -1
  /\ started = <<>>
  /\ host_env = None

RunCall ==
  /\ result.status = "pending"
  /\ result' = run(call.args, call.check, call.sudo, call.retry_patterns,
                   call.retry_count, call.host_sudo, call.oracle)
  /\ UNCHANGED <<call, host_os, config_file, pc, cmdline, events, failures, test_env,
                 summary, raised, exit_code, started, host_env>>

NextRun == RunCall

SpecRun == InitRun /\ [][NextRun]_vars


----------------------------------------------------------------------------
(* Claims about the executor (checked under SpecRun) *)

Clamped == Max(call.retry_count, 1)

\* The a-th execution exits non-zero with a pattern of the call's retry list
\* somewhere in its captured stdout or stderr.
FailsMatching(a) ==
  LET o == call.oracle[a] IN
  /\ o.kind = "exit" /\ o.returncode # 0
  /\ call.retry_patterns # None
  /\ \E j \in 1..Len(call.retry_patterns[1]) :
       Contains(call.retry_patterns[1][j], o.stdout) \/ Contains(call.retry_patterns[1][j], o.stderr)

\* The a-th execution exits non-zero and no pattern of the call's retry list
\* (if any) occurs in its captured stdout or stderr.
FailsNotMatching(a) ==
  LET o == call.oracle[a] IN
  /\ o.kind = "exit" /\ o.returncode # 0
  /\ ~FailsMatching(a)

\* C1: with exit-code checking on, a non-empty retry signature set and
\* retry_count n >= 1, if the first k < n executions each fail with output
\* containing a signature and execution k+1 exits zero, run() returns that
\* successful result after exactly k+1 executions (k sleeps) and does not raise.
C1_RetryUntilSuccess ==
  (/\ result.status # "pending"
   /\ call.check
   /\ call.retry_patterns # None /\ call.retry_patterns[1] # <<>>
   /\ call.retry_count >= 1)
  => \A k \in 0..(call.retry_count - 1) :
       (/\ \A a \in 1..k : FailsMatching(a)
        /\ call.oracle[k + 1].kind = "exit" /\ call.oracle[k + 1].returncode = 0)
       => /\ result.status = "returned"
          /\ result.returncode = 0
          /\ result.stdout = call.oracle[k + 1].stdout
          /\ Len(result.executed) = k + 1
          /\ result.sleeps = k

\* Witness of C1: two matching failures, then success on the third of three attempts.
C1_Witness ==
  /\ result.status = "returned"
  /\ call.check /\ call.retry_count = 3
  /\ FailsMatching(1) /\ FailsMatching(2)
  /\ call.oracle[3].returncode = 0 /\ call.oracle[3].kind = "exit"
  /\ Len(result.executed) = 3

\* C2: with exit-code checking on, a failure whose stdout and stderr contain no
\* signature of the set (or with no set, or an empty one) makes run() raise the
\* command error at once: one execution, no sleep, whatever retry_count is.
C2_NoMatchRaisesAtOnce ==
  (result.status # "pending" /\ call.check /\ FailsNotMatching(1))
  => /\ result.status = "raised"
     /\ result.error = "CalledProcessError"
     /\ result.returncode = call.oracle[1].returncode
     /\ Len(result.executed) = 1
     /\ result.sleeps = 0

\* Witness of C2: a non-matching failure under a non-empty signature set and retry_count 3.
C2_Witness ==
  /\ result.status = "raised"
  /\ call.check /\ call.retry_count = 3
  /\ call.retry_patterns = Some(apt_retry_patterns)
  /\ FailsNotMatching(1)
  /\ call.oracle[1].stdout # <<>>

\* C3: every call of run() ends after at most max(retry_count, 1) executions,
\* all of the same argument vector; when every attempt fails with output
\* matching the signature, run() executes the command exactly max(retry_count, 1)
\* times and then raises the command error a non-matching failure raises.
C3_BoundedAttempts ==
  result.status # "pending"
  => /\ result.status \in {"returned", "raised"}
     /\ Len(result.executed) \in 1..Clamped
     /\ \A j \in 1..Len(result.executed) : result.executed[j] = result.executed[1]
     /\ result.sleeps = Len(result.executed) - 1
     /\ (call.check /\ \A a \in 1..Clamped : FailsMatching(a))
        => /\ Len(result.executed) = Clamped
           /\ result.status = "raised"
           /\ result.error = "CalledProcessError"
           /\ result.returncode = call.oracle[Clamped].returncode
           /\ result.stderr = call.oracle[Clamped].stderr

\* Witness of C3: three matching failures exhaust retry_count = 3.
C3_Witness ==
  /\ result.status = "raised"
  /\ call.check /\ call.retry_count = 3
  /\ \A a \in 1..3 : FailsMatching(a)
  /\ Len(result.executed) = 3


----------------------------------------------------------------------------
(* Claims about the steps (checked under Spec) *)

\* The four fields of a record that the data model calls immutable.
Four(file) ==
  <<file.data.build.generator, file.data.build.build_type,
    file.data.build.diagnostics, file.data.build.compiler>>

\* A process started on one step has ended.
Ended(step) == pc = "done" /\ cmdline.step = step

\* C4: right after a Configure invocation that failed, the build directory
\* holds no configuration record, whatever ran on it before.
C4_FailedConfigureLeavesNoRecord ==
  (Ended("configure") /\ raised # "none") => config_file.state # "valid"

\* C5: Build or Test started on a build directory whose record is absent or
\* unparsable ends with an error, having executed no command and written no
\* add-matcher, remove-matcher or group annotation, and records nothing.
C5_MissingStateIsFatal ==
  ((Ended("build") \/ Ended("test")) /\ config_file.state # "valid")
  => /\ raised \in {"FileNotFoundError", "JSONDecodeError"}
     /\ exit_code = 1
     /\ events = <<>>
     /\ failures = <<>>
     /\ summary = None

\* Witness of C5: a Build with active matchers on a directory that has no record.
C5_Witness ==
  /\ Ended("build")
  /\ config_file = NoFile
  /\ cmdline.problem_matcher # <<>>
  /\ raised = "FileNotFoundError"

\* C6 as stated: once a record is written, generator, build_type, diagnostics
\* and compiler keep the values first written through every later invocation.
C6_FieldsNeverChange ==
  [][config_file.state = "valid"
     => (config_file'.state = "valid" /\ Four(config_file') = Four(config_file))]_vars

\* C6 as amended: once a record is written, the four fields keep their values
\* through every later Prepare, Build, Test and failed Configure; a later
\* Configure that succeeds replaces them by the values of its own command line.
C6_OnlyConfigureRewrites ==
  [][/\ (config_file.state = "valid" /\ ~(pc = "configure" /\ raised' = "none"))
        => (config_file'.state = "valid" /\ Four(config_file') = Four(config_file))
     /\ (pc = "configure" /\ raised' = "none")
        => (/\ config_file'.state = "valid"
            /\ Four(config_file') = <<cmdline.generator, cmdline.build_type,
                                      cmdline.diagnostics, cmdline.compiler>>)]_vars

\* Witness of C6: a Configure with another compiler failed on a configured directory.
C6_Witness ==
  /\ Ended("configure")
  /\ raised # "none"
  /\ config_file.state = "valid"
  /\ config_file.data.build.compiler # cmdline.compiler

\* C7: Build and Test leave the file in the build directory as it was, whatever
\* their outcome.
C7_BuildTestLeaveRecord ==
  [][(pc \in {"build", "test"}) => (config_file' = config_file)]_vars

\* Witness of C7: a Test that ran an executable (and rewrote cmd[0] in memory) has ended.
C7_Witness ==
  /\ Ended("test")
  /\ config_file.state = "valid"
  /\ \E j \in DOMAIN test_env : test_env[j].present
  /\ \E j \in DOMAIN test_env : test_env[j].present /\ test_env[j].outcome.kind = "oserror"

\* A Test phase has processed every declared test without an exception.
TestCompleted ==
  /\ pc = "done"
  /\ cmdline.step \in {"test", "all"}
  /\ raised = "none"
  /\ config_file.state = "valid"
  /\ Len(test_env) = Len(declared_tests(config_file))

\* The names, in declared order from index j on, of the tests that are present
\* and exit non-zero or are absent and not optional.
RECURSIVE ExpectedFailures(_, _, _)
ExpectedFailures(tests, env, j) ==
  IF j > Len(tests) THEN <<>>
  ELSE LET failed == \/ env[j].present /\ env[j].outcome.returncode # 0
                     \/ ~env[j].present /\ ~("optional" \in DOMAIN tests[j] /\ tests[j].optional = TRUE)
       IN (IF failed THEN <<tests[j].cmd[1]>> ELSE <<>>) \o ExpectedFailures(tests, env, j + 1)

ExecEvents == {i \in DOMAIN events : events[i].type = "exec"}

\* C8: in a Test phase where nothing raises, the recorded failures are exactly,
\* in declared order, the present tests exiting non-zero and the absent tests
\* not marked optional; exactly the present tests are executed.
C8_RecordedFailures ==
  TestCompleted
  => /\ failures = ExpectedFailures(declared_tests(config_file), test_env, 1)
     /\ cmdline.step = "test"
        => /\ Cardinality(ExecEvents) = Cardinality({j \in DOMAIN test_env : test_env[j].present})
           /\ \A j \in DOMAIN test_env : ~test_env[j].present =>
                \A i \in ExecEvents : \A k \in DOMAIN events[i].what :
                  events[i].what[k] \notin
                    { build_dir \o "/" \o declared_tests(config_file)[j].cmd[1],
                      build_dir \o "/" \o config_file.data.build.build_type \o "/"
                        \o declared_tests(config_file)[j].cmd[1] }

\* Witness of C8: a present and failing, b absent and required, c absent and optional.
C8_Witness ==
  /\ TestCompleted
  /\ Len(test_env) = 3
  /\ test_env[1].present /\ test_env[1].outcome.returncode = 1
  /\ ~test_env[2].present /\ ~test_env[3].present
  /\ failures = <<"a", "b">>

\* C9: after the Test phase processed all tests, if failures were recorded the
\* summary "N test(s) out of M failed: names" is written, N the number of
\* failures, M the number of declared tests, "test" singular exactly when
\* N = 1, and the process exits with 1; otherwise no summary, exit code 0.
C9_SummaryAndExitCode ==
  TestCompleted
  => IF failures # <<>>
     THEN /\ summary = Some([n |-> Len(failures),
                             word |-> IF Len(failures) = 1 THEN "test" ELSE "tests",
                             m |-> Len(declared_tests(config_file)),
                             names |-> failures])
          /\ exit_code = 1
     ELSE summary = None /\ exit_code = 0

\* Witness of C9: a present exiting 1, b optional and absent: "1 test out of 2 failed: a".
C9_Witness ==
  /\ TestCompleted
  /\ test_env = << [present |-> TRUE, outcome |-> Exited(1, <<>>, <<"assertion", "failed">>)],
                   [present |-> FALSE, outcome |-> Exited(0, <<>>, <<>>)] >>
  /\ summary = Some([n |-> 1, word |-> "test", m |-> 2, names |-> <<"a">>])
  /\ exit_code = 1

\* C10: when a Build or a Test ends, every add-matcher line it wrote is followed
\* by a remove-matcher line for each provider of that matcher.
C10_MatchersAlwaysRemoved ==
  (Ended("build") \/ Ended("test"))
  => \A i \in DOMAIN events :
       events[i].type = "add-matcher"
       => LET provides == problem_matcher_definitions[events[i].what[1]].provides IN
          \A k \in DOMAIN provides :
            \E j \in DOMAIN events : j > i /\ events[j] = Ev("remove-matcher", <<provides[k]>>)

----------------------------------------------------------------------------
(* Specification of the problem-matcher functions alone: one resolution of *)
(* a --problem-matcher option followed by begin/end for one scope.         *)

\* The longest --problem-matcher option drawn, in comma-separated pieces.
MaxPieces == 2

\* The pieces drawn: the registered names, the legacy name, an empty piece
\* and a name that is not registered.
PieceNames == problem_matcher_names \cup {"cpp", "", "tsan"}

\* str.split(",") never returns an empty list.
ProblemMatcherOptions ==
  { <<"auto">> } \cup UNION { [1..n -> PieceNames] : n \in 1..MaxPieces }

DiagnosticsValues == problem_matcher_names \cup {"", "scan-build"}

Scopes == {"build", "analyze", "run"}

InitMatchers ==
  /\ call \in [problem_matcher : ProblemMatcherOptions,
               diagnostics : DiagnosticsValues,
               scope : Scopes]
  /\ result = NoResult
  /\ host_os = "Linux"
  /\ config_file = NoFile
  /\ pc = "idle"
  /\ cmdline = NoArgs
  /\ events = <<>>
  /\ failures = <<>>
  /\ test_env = <<>>
  /\ summary = None
  /\ raised = "none"
  /\ exit_code = -1
  /\ started = <<>>
  /\ host_env = None

\* The option is resolved; the resolved list, when there is one, is handed to
\* begin_problem_matchers and end_problem_matchers for the scope.
MatcherCall ==
  /\ result.status = "pending"
  /\ LET resolved == process_problem_matchers(call.problem_matcher, call.diagnostics) IN
     result' = [status |-> "returned",
                resolved |-> resolved,
                added |-> begin_problem_matchers(resolved.out, call.scope),
                removed |-> end_problem_matchers(resolved.out, call.scope)]
  /\ UNCHANGED <<call, host_os, config_file, pc, cmdline, events, failures, test_env,
                 summary, raised, exit_code, started, host_env>>

NextMatchers == MatcherCall

SpecMatchers == InitMatchers /\ [][NextMatchers]_vars

----------------------------------------------------------------------------
(* Claims about the problem-matcher functions (checked under SpecMatchers) *)

Occurrences(seq, x) == Cardinality({i \in DOMAIN seq : seq[i] = x})

Resolved == result.status = "returned" /\ result.resolved.error = "none"

\* C11: begin_problem_matchers writes one add-matcher line per listed matcher
\* of the scope and none for another matcher; end_problem_matchers writes, for
\* each listed matcher of the scope, one remove-matcher line per provider tag,
\* the tags of a matcher being distinct, and no line for another matcher.
C11_ScopedAddAndRemove ==
  Resolved =>
    LET L == result.resolved.out
        s == call.scope
        listed(m) == IF problem_matcher_definitions[m].scope = s THEN Occurrences(L, m) ELSE 0
    IN /\ \A m \in problem_matcher_names :
            Occurrences(result.added, Ev("add-matcher", <<m>>)) = listed(m)
       /\ \A i \in DOMAIN result.added :
            \E m \in problem_matcher_names :
              listed(m) > 0 /\ result.added[i] = Ev("add-matcher", <<m>>)
       /\ \A m \in problem_matcher_names :
            LET provides == problem_matcher_definitions[m].provides IN
            /\ \A k \in DOMAIN provides :
                 Occurrences(result.removed, Ev("remove-matcher", <<provides[k]>>)) = listed(m)
            /\ \A k1, k2 \in DOMAIN provides : provides[k1] = provides[k2] => k1 = k2
       /\ \A i \in DOMAIN result.removed :
            \E m \in problem_matcher_names :
              /\ listed(m) > 0
              /\ \E k \in DOMAIN problem_matcher_definitions[m].provides :
                   result.removed[i] = Ev("remove-matcher", <<problem_matcher_definitions[m].provides[k]>>)

\* A matcher with two providers and a matcher of another scope are listed.
C11_Witness ==
  /\ Resolved
  /\ result.resolved.out = <<"compile", "valgrind">>
  /\ call.scope = "run"
  /\ Len(result.added) = 1
  /\ Len(result.removed) = 2

Range(seq) == {seq[i] : i \in DOMAIN seq}

\* C12: in auto mode the resolved matchers contain compile, and contain a
\* matcher m other than compile exactly when m is the diagnostics value and
\* that value is a registered matcher; with diagnostics valgrind they are
\* compile and valgrind and none of msan, ubsan, asan.
C12_AutoResolution ==
  (result.status = "returned" /\ call.problem_matcher = <<"auto">>) =>
    /\ result.resolved.error = "none"
    /\ "compile" \in Range(result.resolved.out)
    /\ \A m \in PieceNames \cup DiagnosticsValues :
         m # "compile" =>
           (m \in Range(result.resolved.out)
              <=> (m = call.diagnostics /\ call.diagnostics \in problem_matcher_names))
    /\ call.diagnostics = "valgrind" =>
         /\ {"compile", "valgrind"} \subseteq Range(result.resolved.out)
         /\ Range(result.resolved.out) \cap {"msan", "ubsan", "asan"} = {}

C12_Witness ==
  /\ result.status = "returned"
  /\ call.problem_matcher = <<"auto">>
  /\ call.diagnostics = "valgrind"
  /\ result.resolved.out = <<"compile", "valgrind">>

\* The option with every piece cpp replaced by compile.
Renamed(pieces) == [i \in DOMAIN pieces |-> IF pieces[i] = "cpp" THEN "compile" ELSE pieces[i]]

\* C13: outside auto mode an option and the same option with cpp replaced by
\* compile resolve to the same result, whatever the diagnostics; cpp alone
\* resolves to what compile alone resolves to.
C13_LegacyNameResolves ==
  (result.status = "returned" /\ call.problem_matcher # <<"auto">>) =>
    /\ result.resolved = process_problem_matchers(Renamed(call.problem_matcher), call.diagnostics)
    /\ call.problem_matcher = <<"cpp">> => result.resolved = [error |-> "none", out |-> <<"compile">>]

C13_Witness ==
  /\ result.status = "returned"
  /\ call.problem_matcher = <<"valgrind", "cpp">>
  /\ result.resolved = [error |-> "none", out |-> <<"valgrind", "compile">>]

----------------------------------------------------------------------------
(* Claims about the processes, continued (checked under Spec) *)

PhaseOrder == <<"prepare", "configure", "build", "test">>

\* C14: in step all the phases start in the order Prepare, Configure, Build,
\* Test, each only after the one before completed without error; once a phase
\* raised, or Test recorded failures and exited with 1, no later phase starts
\* and the process ends non-zero; it ends with 0 only if all four completed.
C14_PhasesInOrder ==
  /\ [](cmdline.step = "all" =>
          /\ Len(started) <= Len(PhaseOrder)
          /\ started = SubSeq(PhaseOrder, 1, Len(started))
          /\ (raised # "none" \/ failures # <<>>) => (pc = "done" /\ exit_code = 1)
          /\ exit_code = 0 => (started = PhaseOrder /\ raised = "none" /\ failures = <<>>))
  /\ [][(cmdline.step = "all" /\ Len(started') > Len(started)) =>
          (/\ raised = "none" /\ failures = <<>> /\ exit_code = -1
           /\ started' = Append(started, pc)
           /\ pc = PhaseOrder[Len(started) + 1])]_vars

\* Step all ran its four phases and ended with 0.
C14_Witness ==
  /\ cmdline.step = "all"
  /\ pc = "done"
  /\ exit_code = 0
  /\ started = PhaseOrder

\* The external commands among the events, in order.
ExecsOf(evs) == SelectSeq(evs, LAMBDA e : e.type = "exec")

\* The command lines of the same step that give the current process's options
\* but for the compiler and the diagnostics.
OtherIntents ==
  LET same_step == {c \in CommandLines : c.step = cmdline.step}
      normalized == { normalize_arguments(c, host_os).args : c \in same_step }
  IN { a \in normalized :
         \A f \in DOMAIN cmdline \ {"compiler", "diagnostics"} : a[f] = cmdline[f] }

\* C15: the commands Build and Test execute are determined by the persisted
\* record: against the same record, the same build directory and the same
\* process outcomes, a process given another compiler and other diagnostics on
\* its command line executes the same sequence of commands.
C15_CommandsFromRecord ==
  /\ pc = "build" =>
       \A a2 \in OtherIntents : \A oa \in ProcOutcomes, ob \in ProcOutcomes :
         ExecsOf(build_step(cmdline, groups_on, config_file, Always(oa), Always(ob)).events)
           = ExecsOf(build_step(a2, groups_on, config_file, Always(oa), Always(ob)).events)
  /\ pc = "test" =>
       \A a2 \in OtherIntents : \A nested \in BOOLEAN :
         \A env \in [1..Len(declared_tests(config_file)) -> TestEnvEntries] :
           ExecsOf(test_step(cmdline, groups_on, config_file, host_os, nested, env).events)
             = ExecsOf(test_step(a2, groups_on, config_file, host_os, nested, env).events)

----------------------------------------------------------------------------
(* Specification of Prepare alone, on every host: one process of step      *)
(* prepare whose command line names a compiler, diagnostics, a generator   *)
(* and an architecture.                                                    *)

\* platform.system() values: the hosts prepare_step knows and one it does not.
Hosts == {"Windows", "Darwin", "FreeBSD", "NetBSD", "OpenBSD", "Linux", "Haiku"}

HostCommandLines ==
  [step : {"prepare"},
   compiler : {"gcc", "clang", "clang-17"}, diagnostics : {"", "valgrind", "analyze-build"},
   generator : {"", "Visual Studio 17 2022"}, architecture : {"x64", "x86"},
   build_type : {""}, build_defs : {<<>>}, config : {""}, problem_matcher : {<<"">>}]

\* What prepare_step can meet on a host: every probe succeeds, one fails or
\* all fail; the installation succeeds or fails.
HostEnvs ==
  [present : {Tools, {}} \cup {Tools \ {t} : t \in Tools},
   host_sudo : BOOLEAN,
   is_root : BOOLEAN,
   os_id : {"ubuntu", "debian"},
   codename : {TRUE},
   llvm_remote : {TRUE},
   use_pkgin : BOOLEAN,
   oracles : { [i \in 1..4 |-> Always(Exited(0, <<>>, <<>>))],
               [i \in 1..4 |-> IF i = 4 THEN Always(Exited(100, <<>>, <<"E:", "Unable", "to", "locate", "package">>))
                               ELSE Always(Exited(0, <<>>, <<>>))] }]

InitPrepare ==
  /\ call = NoCall
  /\ result = NoResult
  /\ host_os \in Hosts
  /\ config_file = NoFile
  /\ pc = "prepare"
  /\ \E c \in HostCommandLines :
       /\ normalize_arguments(c, host_os).error = "none"
       /\ cmdline = normalize_arguments(c, host_os).args
  /\ events = <<>>
  /\ failures = <<>>
  /\ test_env = <<>>
  /\ summary = None
  /\ raised = "none"
  /\ exit_code = -1
  /\ started = <<>>
  /\ host_env = None

PrepareHost ==
  /\ pc = "prepare"
  /\ \E env \in HostEnvs :
       /\ AfterStep("prepare", prepare_step(cmdline, groups_on, config_file, host_os, env), -1)
       /\ host_env' = Some(env)
  /\ UNCHANGED <<call, result, host_os, cmdline, failures, test_env, summary>>

NextPrepare == PrepareHost

SpecPrepare == InitPrepare /\ [][NextPrepare]_vars

----------------------------------------------------------------------------
(* Claims about Prepare (checked under SpecPrepare) *)

\* Prepare is over and every version probe it could make succeeded.
PreparedAllPresent ==
  /\ Ended("prepare")
  /\ host_env # None
  /\ host_env[1].present = Tools

\* C16 as stated: on every supported host, when every probe succeeds Prepare
\* issues no package-manager or repository-setup command, for every
\* architecture and diagnostics value.
C16_NothingInstalledWhenPresent ==
  PreparedAllPresent => ExecsOf(events) = <<>>

\* The command executed, without the privilege-escalation prefix.
Unprefixed(cmd) == IF cmd # <<>> /\ Head(cmd) = "sudo" THEN Tail(cmd) ELSE cmd

\* C16, amended: when every probe succeeds Prepare executes no command, for
\* every diagnostics value and every architecture, except on Linux with
\* architecture x86, where it first adds the i386 architecture and then installs
\* the i386 multilib packages whatever the probes say.
C16_NothingInstalledButMultilib ==
  PreparedAllPresent =>
    IF host_os = "Linux" /\ cmdline.architecture = "x86"
    THEN /\ ExecsOf(events) # <<>>
         /\ Unprefixed(ExecsOf(events)[1].what) = <<"dpkg", "--add-architecture", "i386">>
         /\ raised = "none" =>
              LET last == Unprefixed(ExecsOf(events)[Len(ExecsOf(events))].what) IN
              /\ SubSeq(last, 1, 4) = <<"apt-get", "install", "-qq", "linux-libc-dev:i386">>
              /\ Len(last) = 5
              /\ last[5] \in {"g++-multilib", "g++-13-multilib"}
    ELSE ExecsOf(events) = <<>>

\* Every probe succeeded on a BSD host and Prepare ended without a command.
C16_Witness ==
  /\ PreparedAllPresent
  /\ host_os = "FreeBSD"
  /\ raised = "none"
  /\ exit_code = 0
  /\ cmdline.diagnostics = "valgrind"
  /\ ExecsOf(events) = <<>>

----------------------------------------------------------------------------
(* Claims about the executor, continued (checked under SpecRun) *)

\* C17: with elevation requested the vector executed is the given one prefixed
\* by sudo exactly when the probe reports sudo available; when it is not, the
\* given vector is executed unchanged and run() raises only what the command
\* itself causes; without elevation requested the vector is never prefixed.
C17_SudoPrefix ==
  result.status # "pending" =>
    LET prefixed == call.sudo /\ call.host_sudo
        last == call.oracle[Len(result.executed)]
    IN /\ Len(result.executed) >= 1
       /\ \A j \in DOMAIN result.executed :
            /\ prefixed => result.executed[j] = <<"sudo">> \o call.args
            /\ ~prefixed => result.executed[j] = call.args
       /\ (call.sudo /\ ~call.host_sudo /\ result.status = "raised") =>
            \/ result.error = "OSError" /\ last.kind = "oserror"
            \/ /\ result.error = "CalledProcessError"
               /\ call.check /\ last.kind = "exit" /\ last.returncode # 0

\* Elevation was requested where sudo is unavailable, and the command ran as given.
C17_Witness ==
  /\ result.status = "returned"
  /\ call.sudo /\ ~call.host_sudo
  /\ result.executed = <<call.args>>

\* C18: with exit-code checking disabled run() executes the command once and
\* returns the exit code and the captured output of that execution, whatever
\* the exit code; it raises no command error and never retries, even when the
\* output carries a retry signature.
C18_UncheckedReturnsOnce ==
  (result.status # "pending" /\ ~call.check) =>
    /\ Len(result.executed) = 1
    /\ result.sleeps = 0
    /\ result.error # "CalledProcessError"
    /\ call.oracle[1].kind = "exit" =>
         /\ result.status = "returned"
         /\ result.returncode = call.oracle[1].returncode
         /\ result.stdout = call.oracle[1].stdout
         /\ result.stderr = call.oracle[1].stderr

\* An unchecked call met a non-zero exit carrying a retry signature of its
\* list, with retries left, and returned it.
C18_Witness ==
  /\ result.status = "returned"
  /\ ~call.check
  /\ call.retry_count = 3
  /\ FailsMatching(1)
  /\ result.returncode = 1
  /\ Len(result.executed) = 1

----------------------------------------------------------------------------
(* Claims about the Test phase, continued (checked under Spec) *)

\* A process of step test read a record and met, for each declared test, an
\* absent executable or one that ran and exited.
TestRanToExit ==
  /\ pc = "done"
  /\ cmdline.step = "test"
  /\ config_file.state = "valid"
  /\ Len(test_env) = Len(declared_tests(config_file))
  /\ \A j \in DOMAIN test_env : test_env[j].present => test_env[j].outcome.kind = "exit"

\* The indices of the declared tests whose executable is present, in order.
PresentTests == SelectSeq([j \in DOMAIN test_env |-> j], LAMBDA j : test_env[j].present)

\* cmd is an execution of the declared test: its tail is the test's command
\* with the executable's path in place of the name.
RunsTest(cmd, test) ==
  /\ Len(cmd) >= Len(test.cmd)
  /\ LET at == Len(cmd) - Len(test.cmd) IN
     /\ cmd[at + 1] \in { build_dir \o "/" \o test.cmd[1],
                          build_dir \o "/" \o config_file.data.build.build_type \o "/" \o test.cmd[1] }
     /\ \A k \in 2..Len(test.cmd) : cmd[at + k] = test.cmd[k]

\* C19: a failing test is not fatal to the Test phase: the descriptors are
\* processed in declared order, each present executable is executed once, a
\* non-zero exit or a missing required executable does not keep the following
\* tests from being processed, and the exit code is decided after the last one.
C19_FailuresNotFatal ==
  TestRanToExit =>
    /\ raised = "none"
    /\ Len(ExecsOf(events)) = Len(PresentTests)
    /\ \A k \in DOMAIN PresentTests :
         RunsTest(ExecsOf(events)[k].what, declared_tests(config_file)[PresentTests[k]])
    /\ failures = ExpectedFailures(declared_tests(config_file), test_env, 1)
    /\ exit_code = (IF ExpectedFailures(declared_tests(config_file), test_env, 1) # <<>> THEN 1 ELSE 0)

\* The first test exits non-zero, the second is missing and required, the
\* third is executed all the same.
C19_Witness ==
  /\ TestRanToExit
  /\ Len(test_env) = 3
  /\ test_env[1].present /\ test_env[1].outcome.returncode = 1
  /\ ~test_env[2].present
  /\ test_env[3].present /\ test_env[3].outcome.returncode = 0
  /\ Len(ExecsOf(events)) = 2
  /\ failures = <<"a", "b">>
  /\ exit_code = 1

Positions(type) == {i \in DOMAIN events : events[i].type = type}

\* C20: in a Test phase with a declared test and no raised invocation, every
\* listed matcher of scope run is added once before the first test and each
\* of its providers removed once after the last test and before the summary;
\* no add-matcher or remove-matcher line lies between two tests.
C20_RunMatchersBracketTests ==
  (TestCompleted /\ cmdline.step = "test" /\ declared_tests(config_file) # <<>>) =>
    LET listed(m) == IF problem_matcher_definitions[m].scope = "run"
                     THEN Occurrences(cmdline.problem_matcher, m) ELSE 0
        tests == Positions("exec") \cup Positions("group") \cup Positions("endgroup")
    IN /\ \A m \in problem_matcher_names :
            /\ Occurrences(events, Ev("add-matcher", <<m>>)) = listed(m)
            /\ \A k \in DOMAIN problem_matcher_definitions[m].provides :
                 Occurrences(events, Ev("remove-matcher", <<problem_matcher_definitions[m].provides[k]>>))
                   = listed(m)
       /\ \A i \in Positions("add-matcher") :
            \A k \in tests \cup Positions("remove-matcher") \cup Positions("summary") : i < k
       /\ \A i \in Positions("remove-matcher") :
            /\ \A k \in tests : k < i
            /\ \A k \in Positions("summary") : i < k

\* Two tests ran between the add and the removes of the valgrind matcher,
\* and the summary followed.
C20_Witness ==
  /\ TestCompleted /\ cmdline.step = "test"
  /\ cmdline.problem_matcher = <<"compile", "valgrind">>
  /\ Cardinality(Positions("exec")) >= 2
  /\ Cardinality(Positions("add-matcher")) = 1
  /\ Cardinality(Positions("remove-matcher")) = 2
  /\ Cardinality(Positions("summary")) = 1

----------------------------------------------------------------------------
(* Specification of Build alone: one process of step build started on a    *)
(* build directory that an earlier Configure left, or left empty.          *)

BuildCommandLines ==
  [step : {"build"},
   compiler : {"gcc", "clang"}, diagnostics : {"", "valgrind", "analyze-build"},
   generator : {""}, architecture : {"x64"},
   build_type : {""}, build_defs : {<<>>}, config : {""},
   problem_matcher : {<<"auto">>, <<"">>, <<"analyze-build", "cpp">>}]

\* The records a successful Configure writes, over its command lines.
ConfiguredRecords ==
  { configure_step(normalize_arguments(c, "Linux").args, FALSE, NoFile,
                   Always(Exited(0, <<>>, <<>>))).file :
      c \in {c \in CommandLines : c.step = "configure"} }

InitBuild ==
  /\ call = NoCall
  /\ result = NoResult
  /\ host_os = "Linux"
  /\ config_file \in ConfiguredRecords \cup {NoFile}
  /\ pc = "build"
  /\ \E c \in BuildCommandLines :
       /\ normalize_arguments(c, host_os).error = "none"
       /\ cmdline = normalize_arguments(c, host_os).args
  /\ events = <<>>
  /\ failures = <<>>
  /\ test_env = <<>>
  /\ summary = None
  /\ raised = "none"
  /\ exit_code = -1
  /\ started = <<>>
  /\ host_env = None

BuildOnce ==
  /\ pc = "build"
  /\ \E oa \in ProcOutcomes, ob \in ProcOutcomes :
       /\ AfterStep("build", build_step(cmdline, groups_on, config_file, Always(oa), Always(ob)), -1)
       /\ host_env' = Some([analyze |-> oa, build |-> ob])
  /\ UNCHANGED <<call, result, host_os, cmdline, failures, test_env, summary>>

NextBuild == BuildOnce

SpecBuild == InitBuild /\ [][NextBuild]_vars

----------------------------------------------------------------------------
(* Claims about Build (checked under SpecBuild) *)

\* The matchers of a scope, and the provider tags of those matchers.
MatchersOf(scope) == {m \in problem_matcher_names : problem_matcher_definitions[m].scope = scope}

ProvidersOf(scope) ==
  UNION { Range(problem_matcher_definitions[m].provides) : m \in MatchersOf(scope) }

IsAnalysis(e) ==
  e.type = "exec" /\ Len(e.what) >= 3 /\ SubSeq(e.what, 2, 3) = <<"-v", "--cdb">>

IsMainBuild(e) ==
  e.type = "exec" /\ Len(e.what) >= 2 /\ SubSeq(e.what, 1, 2) = <<"cmake", "--build">>

\* The place of an event in the order of the Build phase; 0 for one that has none.
BuildRank(e) ==
  CASE e.type = "add-matcher" /\ e.what[1] \in MatchersOf("analyze") -> 1
    [] IsAnalysis(e) -> 2
    [] e.type = "remove-matcher" /\ e.what[1] \in ProvidersOf("analyze") -> 3
    [] e.type = "add-matcher" /\ e.what[1] \in MatchersOf("build") -> 4
    [] IsMainBuild(e) -> 5
    [] e.type = "remove-matcher" /\ e.what[1] \in ProvidersOf("build") -> 6
    [] OTHER -> 0

Ranked(r) == {i \in DOMAIN events : BuildRank(events[i]) = r}

\* The matchers of the scope listed on the command line are all added (removed).
AllAdded(scope) ==
  \A m \in MatchersOf(scope) :
    Occurrences(events, Ev("add-matcher", <<m>>)) = Occurrences(cmdline.problem_matcher, m)

AllRemoved(scope) ==
  \A m \in MatchersOf(scope) : \A k \in DOMAIN problem_matcher_definitions[m].provides :
    Occurrences(events, Ev("remove-matcher", <<problem_matcher_definitions[m].provides[k]>>))
      = Occurrences(cmdline.problem_matcher, m)

\* C21: when the record selects analyze-build the Build phase adds the
\* analyze-scope matchers, runs the analysis, removes them, adds the
\* build-scope matchers, runs the main build and removes them, in this order;
\* the main build starts only after the analysis succeeded; with any other
\* mode there is no analysis command and no analyze-scope annotation.
C21_AnalysisThenBuild ==
  (pc = "done" /\ config_file.state = "valid" /\ host_env # None) =>
    LET analyze == config_file.data.build.diagnostics = "analyze-build" IN
    /\ \A i \in DOMAIN events : BuildRank(events[i]) \in 1..6
    /\ \A i, j \in DOMAIN events : i < j => BuildRank(events[i]) <= BuildRank(events[j])
    /\ Cardinality(Ranked(2)) <= 1 /\ Cardinality(Ranked(5)) <= 1
    /\ analyze =>
         /\ AllAdded("analyze") /\ Cardinality(Ranked(2)) = 1
         /\ Ranked(5) # {} =>
              /\ host_env[1].analyze.kind = "exit" /\ host_env[1].analyze.returncode = 0
              /\ AllRemoved("analyze")
    /\ ~analyze => Ranked(1) \cup Ranked(2) \cup Ranked(3) = {}
    /\ Ranked(5) # {} => AllAdded("build")
    /\ raised = "none" => (Cardinality(Ranked(5)) = 1 /\ AllRemoved("build"))

\* A Build with analysis and matchers of both scopes ran to its end.
C21_Witness ==
  /\ pc = "done" /\ raised = "none" /\ host_env # None
  /\ config_file.state = "valid"
  /\ config_file.data.build.diagnostics = "analyze-build"
  /\ cmdline.problem_matcher = <<"compile", "analyze-build">>
  /\ [i \in DOMAIN events |-> BuildRank(events[i])] = <<1, 2, 3, 4, 5, 6, 6>>

----------------------------------------------------------------------------
(* Claims about the Test phase, the raising test (checked under Spec) *)

\* The j-th declared test is present and cannot be started.
RaisesAt(j) == test_env[j].present /\ test_env[j].outcome.kind = "oserror"

\* The Test phase of the process ran on a record and one of its tests raised.
TestRaised ==
  /\ pc = "done"
  /\ cmdline.step \in {"test", "all"}
  /\ config_file.state = "valid"
  /\ Len(test_env) = Len(declared_tests(config_file))
  /\ \E j \in DOMAIN test_env : RaisesAt(j)

FirstRaising == CHOOSE j \in DOMAIN test_env : RaisesAt(j) /\ \A k \in 1..(j - 1) : ~RaisesAt(k)

\* C22: when invoking a present test raises, the test is recorded as failed,
\* its log scope is closed, and then the exception leaves the Test phase: no
\* later test is executed, nothing more is written, the process ends non-zero.
C22_RaisedTestRecordedAndClosed ==
  TestRaised =>
    LET tests == declared_tests(config_file)
        j0 == FirstRaising
        n == Len(events)
    IN /\ raised = "OSError"
       /\ exit_code = 1
       /\ summary = None
       /\ failures = ExpectedFailures(SubSeq(tests, 1, j0 - 1), test_env, 1) \o <<tests[j0].cmd[1]>>
       /\ IF groups_on
          THEN /\ n >= 3
               /\ events[n - 2] = Ev("group", <<tests[j0].cmd>>)
               /\ events[n - 1].type = "exec" /\ RunsTest(events[n - 1].what, tests[j0])
               /\ events[n] = Ev("endgroup", <<>>)
          ELSE /\ n >= 1
               /\ events[n].type = "exec" /\ RunsTest(events[n].what, tests[j0])
       /\ \A i \in DOMAIN events : \A j \in (j0 + 1)..Len(tests) :
            ~(events[i].type = "exec" /\ RunsTest(events[i].what, tests[j]))

\* In step all the first test cannot be started although the second is present.
C22_Witness ==
  /\ TestRaised
  /\ cmdline.step = "all"
  /\ Len(test_env) = 2
  /\ RaisesAt(1)
  /\ test_env[2].present /\ test_env[2].outcome.kind = "exit"
  /\ failures = <<"a">>
  /\ events[Len(events)] = Ev("endgroup", <<>>)

----------------------------------------------------------------------------
(* Claims about Configure and its input file (checked under Spec) *)

\* A Configure given an input configuration file succeeded.
ConfiguredWithInput ==
  /\ Ended("configure")
  /\ raised = "none"
  /\ cmdline.config # ""

\* The build entry is the normalized intent of the invocation.
BuildEntryIsIntent ==
  /\ config_file.state = "valid"
  /\ "build" \in DOMAIN config_file.data
  /\ config_file.data.build =
       [build_tool |-> "cmake", build_type |-> cmdline.build_type,
        build_defs |-> cmdline.build_defs, config |-> cmdline.config,
        compiler |-> cmdline.compiler, generator |-> cmdline.generator,
        diagnostics |-> cmdline.diagnostics, architecture |-> cmdline.architecture]

\* C23 as stated: after a successful Configure with an input file the record
\* holds every top-level key of the input with its value unchanged, and the
\* build entry equal to the normalized intent.
C23_RecordAdditive ==
  ConfiguredWithInput =>
    /\ BuildEntryIsIntent
    /\ \A k \in DOMAIN InputConfig(cmdline.config) :
         k \in DOMAIN config_file.data /\ config_file.data[k] = InputConfig(cmdline.config)[k]

\* C23, amended: the record holds every top-level key of the input other than
\* build with its value unchanged, no other key but build, and the build entry
\* equal to the normalized intent, which replaces a build key of the input.
C23_RecordAdditiveButBuild ==
  ConfiguredWithInput =>
    /\ BuildEntryIsIntent
    /\ DOMAIN config_file.data = DOMAIN InputConfig(cmdline.config) \cup {"build"}
    /\ \A k \in DOMAIN InputConfig(cmdline.config) \ {"build"} :
         config_file.data[k] = InputConfig(cmdline.config)[k]

\* The input file with tests, valgrind arguments and a diagnostics table went
\* into the record.
C23_Witness ==
  /\ ConfiguredWithInput
  /\ cmdline.config = "full.json"
  /\ BuildEntryIsIntent
  /\ DOMAIN config_file.data = {"build", "tests", "valgrind_arguments", "diagnostics"}
  /\ config_file.data.valgrind_arguments = <<"--error-exitcode=1">>

=============================================================================
